---- MODULE Spec2Model ----
(***************************************************************************)
(* A model of src/index.ts (g7d): the descriptor builders scalarType,      *)
(* interfaceType, objectType, arrayType and enumType, the exported scalars *)
(* Int, Float, String, ID and Boolean, the module-level example x, and the *)
(* type-level programs (Type, Infer, InferExternalFieldsDescription,       *)
(* InferInternalFieldsDescription) evaluated on the descriptors' declared  *)
(* types.                                                                  *)
(*                                                                         *)
(* JavaScript values are encoded as follows: a string is a TLA+ string;    *)
(* the booleans are the strings "true" and "false"; undefined is the       *)
(* value `undefined`; an object is a record whose domain is the set of its *)
(* own properties; an object used as a map (a field map, an enum's items)  *)
(* is the sequence of its entries in insertion order, which is the order   *)
(* Object.keys reports; a reference to an object is its address: an index  *)
(* of `heap` for a map, an index of `descs` for a descriptor.              *)
(***************************************************************************)
EXTENDS Integers, Sequences, FiniteSets, TLC

VARIABLES heap, descs, types, last, writes

vars == <<heap, descs, types, last, writes>>

(* Bounds of the model. *)
MaxDescs == 7
MaxWrites == 1

undefined == "undefined"

(* Property read `o.f`: undefined when o has no own property f. *)
Get(o, f) == IF f \in DOMAIN o THEN o[f] ELSE undefined

(***************************************************************************)
(* Input vocabulary.                                                       *)
(***************************************************************************)
(* The name / description pairs a caller passes to a builder: both given,
   an empty name, and no name at all (a caller the compiler did not check). *)
Props == {[name |-> "X", description |-> "test"],
          [name |-> "", description |-> undefined],
          [name |-> undefined, description |-> undefined]}

(* Field names: those of the in-source example x, and those callers use. *)
FieldNames == {"a", "b", "c"}
InputNames == {"a", "c"}

(* Enum value names. *)
EnumNames == {"A", "B"}

(* isOptional as passed to arrayType: omitted, true or false. *)
OptionalArgs == {undefined, "true", "false"}

(* <TInternal, TExternal> type arguments of scalarType calls. *)
Prim(n) == [kind |-> "prim", name |-> n]
Unknown == [kind |-> "unknown"]
Literals(S) == [kind |-> "literal", of |-> S]
ObjectShape(F) == [kind |-> "object", fields |-> F]
ScalarTypeArgs == {<<Prim("number"), Prim("number")>>, <<Prim("Date"), Prim("string")>>}

(* Wire values used to exercise the conversions of a scalar. *)
WireValues == {"1", "x"}

(* All duplicate-free sequences over S: the key orders an object can have. *)
KeySeqs(S) ==
  UNION {{s \in [1..n -> S] : \A i, j \in 1..n : i # j => s[i] # s[j]} :
           n \in 0..Cardinality(S)}

(* Addresses in `descs` of the exported scalars and of x (Int_ is the export
   Int, renamed because Integers defines Int). *)
Int_ == 1
Float == 2
String == 3
ID == 4
Boolean == 5
x == 6

(* The external field description a caller declares for field k. *)
ExternalFieldFor(k) ==
  CASE k = "a" -> [type |-> Int_]
    [] k = "b" -> [type |-> String, isOptional |-> "true"]
    [] OTHER   -> [type |-> Int_, isOptional |-> "false"]

(* The binding function a caller declares for internal field k, given by
   the declared types of its two parameters (type, isOptional). *)
InternalFieldFor(k) ==
  CASE k = "c" -> [IType |-> Prim("boolean"), IIsOptional |-> "false"]
    [] k = "a" -> [IType |-> Prim("number"), IIsOptional |-> "true"]
    [] OTHER   -> [IType |-> Prim("number"), IIsOptional |-> "false"]

ExternalMap(ks) == [i \in 1..Len(ks) |-> [key |-> ks[i], value |-> ExternalFieldFor(ks[i])]]
InternalMap(ks) == [i \in 1..Len(ks) |-> [key |-> ks[i], value |-> InternalFieldFor(ks[i])]]
EnumItems(ks) == [i \in 1..Len(ks) |-> [key |-> ks[i], value |-> "doc"]]

(* The maps callers pass: every key order over the input names. *)
ExternalMaps == {ExternalMap(ks) : ks \in KeySeqs(InputNames)}
InternalMaps == {InternalMap(ks) : ks \in KeySeqs(InputNames)}
EnumItemMaps == {EnumItems(ks) : ks \in KeySeqs(EnumNames)}

(***************************************************************************)
(* Array and object primitives of the language, as objectType uses them.   *)
(***************************************************************************)
ObjectKeys(m) == [i \in 1..Len(m) |-> m[i].key]
KeySet(m) == {m[i].key : i \in 1..Len(m)}
Lookup(m, k) == (CHOOSE e \in {m[i] : i \in 1..Len(m)} : e.key = k).value

Concat(s, t) == s \o t

(* arr.slice(start): the elements from 0-based index start on. *)
Slice(arr, start) == SubSeq(arr, start + 1, Len(arr))

(* arr.indexOf(v): the first 0-based index of v, or -1. *)
IndexOf(arr, v) ==
  IF \E i \in 1..Len(arr) : arr[i] = v
    THEN (CHOOSE i \in 1..Len(arr) : arr[i] = v /\ \A j \in 1..(i - 1) : arr[j] # v) - 1
    ELSE -1

(* arr.findIndex(callback): the first 0-based index whose element satisfies
   the callback, or -1; test[i] is the callback's result on the i-th element. *)
FindIndex(arr, test) ==
  IF \E i \in 1..Len(arr) : test[i]
    THEN (CHOOSE i \in 1..Len(arr) : test[i] /\ \A j \in 1..(i - 1) : ~test[j]) - 1
    ELSE -1

(* A variant of the callback that starts one element too late; C2 rejects it. *)
OccursAfterNext(value, index, arr) == IndexOf(Slice(arr, index + 2), value) # -1
(* The callback of the duplicate check: value occurs again after index. *)
OccursLater(value, index, arr) == IndexOf(Slice(arr, index + 1), value) # -1

(* The condition of the `if` in objectType. *)
HasDuplicateFieldNames(externalFields, internalFields) ==
  LET arr == Concat(ObjectKeys(externalFields), ObjectKeys(internalFields))
  IN  FindIndex(arr, [i \in 1..Len(arr) |-> OccursLater(arr[i], i - 1, arr)]) # -1

(***************************************************************************)
(* The type-level programs, evaluated on declared types.  A declared type  *)
(* is a record tagged like the interface it instantiates, holding its type *)
(* arguments; a type argument is a shape: Prim, Unknown, Literals (a union *)
(* of string literals) or ObjectShape (a set of [key, type, optional]).    *)
(***************************************************************************)
ScalarType(TInternal, TExternal) == [type |-> "scalar", TInternal |-> TInternal, TExternal |-> TExternal]
InterfaceType(T) == [type |-> "interface", T |-> T]
ObjectType(TExternal, TInternal) == [type |-> "object", TExternal |-> TExternal, TInternal |-> TInternal]
ArrayType(T) == [type |-> "array", T |-> T]
EnumType(T) == [type |-> "enum", T |-> T]

(* The T for which a declared type D is a member of the union Type<T>. *)
TypeArg(D) ==
  CASE D.type = "scalar"    -> D.TInternal
    [] D.type = "interface" -> D.T
    [] D.type = "object"    -> Unknown
    [] D.type = "array"     -> D.T
    [] D.type = "enum"      -> D.T

(* IExternal & IInternal for two object shapes. *)
Intersection(A, B) == ObjectShape(A.fields \cup B.fields)

Infer(D) ==
  CASE D.type = "scalar"    -> D.TExternal
    [] D.type = "interface" -> D.T
    [] D.type = "object"    -> Intersection(D.TExternal, D.TInternal)
    [] D.type = "array"     -> D.T
    [] D.type = "enum"      -> D.T

(* One member of the union built over the keys of an external field map:
   Partial<Record<K, I>> when the entry has isOptional: true, else
   Record<K, I>, with I inferred from the entry's `type`. *)
ExternalMember(e, tys) ==
  [key |-> e.key, type |-> TypeArg(tys[e.value.type]),
   optional |-> (Get(e.value, "isOptional") = "true")]

InferExternalFieldsDescription(m, tys) ==
  ObjectShape({ExternalMember(m[i], tys) : i \in 1..Len(m)})

(* A variant with the two branches exchanged; C8 rejects it. *)
InternalMemberInverted(e) ==
  [key |-> e.key, type |-> e.value.IType, optional |-> (e.value.IIsOptional = "false")]
(* One member of the union built over the keys of an internal field map:
   Record<K, IType> when IIsOptional extends false, else Partial<...>. *)
InternalMember(e) ==
  [key |-> e.key, type |-> e.value.IType, optional |-> ~(e.value.IIsOptional = "false")]

InferInternalFieldsDescription(m) ==
  ObjectShape({InternalMember(m[i]) : i \in 1..Len(m)})

(* A variant that keeps only the first key; C10 rejects it. *)
KeyOfStringFirstOnly(items) == Literals({items[i].key : i \in (1..Len(items)) \cap {1}})
(* keyof T & string for the items object of an enumType call. *)
KeyOfString(items) == Literals(KeySet(items))

(* The T of interfaceType<T> for which `fields` is ExternalFieldsDescription<T>:
   key K is optional in T exactly when fields[K] has isOptional: true. *)
InterfaceShape(m, tys) ==
  ObjectShape({[key |-> m[i].key, type |-> TypeArg(tys[m[i].value.type]),
                optional |-> (Get(m[i].value, "isOptional") = "true")] : i \in 1..Len(m)})

(***************************************************************************)
(* The builders: the value each returns (or the error it throws).          *)
(***************************************************************************)
scalarType(a) ==
  [type |-> "scalar", name |-> a.name, description |-> a.description,
   serialize |-> a.serialize, parseValue |-> a.parseValue, parseLiteral |-> a.parseLiteral]

(* The object literal `{ type: "scalar" } as any` of the five exports. *)
PredefinedScalar == [type |-> "scalar"]

interfaceType(a) ==
  [type |-> "interface", name |-> a.name, description |-> a.description, fields |-> a.fields]

(* A variant that stores each map under the other's name; C1 rejects it. *)
ObjectDescriptorSwapped(a) ==
  [type |-> "object", name |-> a.name, description |-> a.description,
   externalFields |-> a.internalFields, internalFields |-> a.externalFields]
(* The descriptor objectType returns when the check passes. *)
ObjectDescriptor(a) ==
  [type |-> "object", name |-> a.name, description |-> a.description,
   externalFields |-> a.externalFields, internalFields |-> a.internalFields]

(* a.externalFields and a.internalFields are addresses in the heap h. *)
objectType(a, h) ==
  IF HasDuplicateFieldNames(h[a.externalFields], h[a.internalFields])
    THEN [outcome |-> "throw", error |-> "Duplicate field names"]
    ELSE [outcome |-> "return", value |-> ObjectDescriptor(a)]

(* A variant that stores false for an omitted isOptional; C4 as amended
   rejects it. *)
arrayTypeDefaulting(a) ==
  [type |-> "array", name |-> a.name, description |-> a.description,
   isOptional |-> IF a.isOptional = undefined THEN "false" ELSE a.isOptional,
   itemType |-> a.itemType]
(* The descriptor arrayType returns: isOptional as destructured from the
   argument, undefined when the caller omitted it. *)
arrayType(a) ==
  [type |-> "array", name |-> a.name, description |-> a.description,
   isOptional |-> a.isOptional, itemType |-> a.itemType]

enumType(a) ==
  [type |-> "enum", name |-> a.name, description |-> a.description, items |-> a.items]

(* f(v) for a property value f: a TypeError when f is undefined, else the
   application of the caller's opaque callback, kept symbolic. *)
Invoke(f, v) ==
  IF f = undefined
    THEN [outcome |-> "throw", error |-> "TypeError"]
    ELSE [outcome |-> "return", value |-> [fn |-> f, arg |-> v]]

(* d.serialize(d.parseValue(v)) *)
SerializeParsed(d, v) ==
  LET parsed == Invoke(Get(d, "parseValue"), v)
  IN  IF parsed.outcome = "throw" THEN parsed ELSE Invoke(Get(d, "serialize"), parsed.value)

(* obj[k] = v on a map: replaces the value in place, or appends the entry. *)
Put(m, k, v) ==
  IF k \in KeySet(m)
    THEN [i \in 1..Len(m) |-> IF m[i].key = k THEN [key |-> k, value |-> v] ELSE m[i]]
    ELSE Append(m, [key |-> k, value |-> v])

(***************************************************************************)
(* State after the module has been evaluated: the five exported scalars    *)
(* and x, built by the objectType call at the end of the file.             *)
(***************************************************************************)
xExternalFields == ExternalMap(<<"a", "b">>)
xInternalFields == InternalMap(<<"c">>)
xArgs == [name |-> "X", description |-> "test", externalFields |-> 1, internalFields |-> 2]

Init ==
  /\ heap = <<xExternalFields, xInternalFields>>
  /\ descs = <<PredefinedScalar, PredefinedScalar, PredefinedScalar, PredefinedScalar,
               PredefinedScalar, objectType(xArgs, <<xExternalFields, xInternalFields>>).value>>
  /\ types = <<ScalarType(Prim("number"), Prim("number")),
               ScalarType(Prim("number"), Prim("number")),
               ScalarType(Prim("string"), Prim("string")),
               ScalarType(Prim("string"), Prim("string")),
               ScalarType(Prim("boolean"), Prim("boolean")),
               ObjectType(InferExternalFieldsDescription(xExternalFields,
                            <<ScalarType(Prim("number"), Prim("number")),
                              ScalarType(Prim("number"), Prim("number")),
                              ScalarType(Prim("string"), Prim("string"))>>),
                          InferInternalFieldsDescription(xInternalFields))>>
  /\ last = [op |-> "load"]
  /\ writes = 0

(***************************************************************************)
(* One action per call a user of the module can make.                      *)
(***************************************************************************)
(* An error nobody catches ends the program: the module's caller is a schema
   definition evaluated top to bottom.  A throw changes no descriptor and no
   map, so a caller that caught it and went on would reach nothing new. *)
Running == Get(last, "outcome") # "throw"

Returned(op, args) == [op |-> op, args |-> args, outcome |-> "return", ret |-> Len(descs) + 1]

CallScalarType ==
  /\ Running
  /\ Len(descs) < MaxDescs
  /\ \E p \in Props, ta \in ScalarTypeArgs :
      LET a == [name |-> p.name, description |-> p.description, serialize |-> "serialize",
                parseValue |-> "parseValue", parseLiteral |-> "parseLiteral"]
      IN  /\ descs' = Append(descs, scalarType(a))
          /\ types' = Append(types, ScalarType(ta[1], ta[2]))
          /\ last' = Returned("scalarType", a)
          /\ UNCHANGED <<heap, writes>>

CallInterfaceType ==
  /\ Running
  /\ Len(descs) < MaxDescs
  /\ \E p \in Props, fields \in ExternalMaps :
      LET a == [name |-> p.name, description |-> p.description, fields |-> Len(heap) + 1]
      IN  /\ heap' = Append(heap, fields)
          /\ descs' = Append(descs, interfaceType(a))
          /\ types' = Append(types, InterfaceType(InterfaceShape(fields, types)))
          /\ last' = Returned("interfaceType", [a EXCEPT !.fields = fields])
          /\ UNCHANGED writes

CallObjectType ==
  /\ Running
  /\ \E p \in Props, externalFields \in ExternalMaps, internalFields \in InternalMaps :
      LET h == heap \o <<externalFields, internalFields>>
          a == [name |-> p.name, description |-> p.description,
                externalFields |-> Len(heap) + 1, internalFields |-> Len(heap) + 2]
          byValue == [a EXCEPT !.externalFields = externalFields,
                               !.internalFields = internalFields]
          r == objectType(a, h)
      IN  IF r.outcome = "throw"
            THEN /\ last' = [op |-> "objectType", args |-> byValue, outcome |-> "throw",
                             error |-> r.error]
                 /\ UNCHANGED <<heap, descs, types, writes>>
            ELSE /\ Len(descs) < MaxDescs
                 /\ heap' = h
                 /\ descs' = Append(descs, r.value)
                 /\ types' = Append(types,
                                    ObjectType(InferExternalFieldsDescription(externalFields, types),
                                               InferInternalFieldsDescription(internalFields)))
                 /\ last' = Returned("objectType", byValue)
                 /\ UNCHANGED writes

CallArrayType ==
  /\ Running
  /\ Len(descs) < MaxDescs
  /\ \E p \in Props, o \in OptionalArgs, it \in 1..Len(descs) :
      LET a == [name |-> p.name, description |-> p.description, isOptional |-> o,
                itemType |-> it]
      IN  /\ descs' = Append(descs, arrayType(a))
          /\ types' = Append(types, ArrayType(TypeArg(types[it])))
          /\ last' = Returned("arrayType", a)
          /\ UNCHANGED <<heap, writes>>

CallEnumType ==
  /\ Running
  /\ Len(descs) < MaxDescs
  /\ \E p \in Props, items \in EnumItemMaps :
      LET a == [name |-> p.name, description |-> p.description, items |-> Len(heap) + 1]
      IN  /\ heap' = Append(heap, items)
          /\ descs' = Append(descs, enumType(a))
          /\ types' = Append(types, EnumType(KeyOfString(items)))
          /\ last' = Returned("enumType", [a EXCEPT !.items = items])
          /\ UNCHANGED writes

(* A consumer converts wire value v with scalar s: s.serialize(s.parseValue(v)). *)
RoundTrip ==
  /\ Running
  /\ \E s \in 1..Len(descs), v \in WireValues :
      /\ descs[s].type = "scalar"
      /\ last' = [op |-> "roundTrip", args |-> [scalar |-> s, value |-> v]]
                   @@ SerializeParsed(descs[s], v)
      /\ UNCHANGED <<heap, descs, types, writes>>

(* The caller assigns a property of a map it holds: one it passed to a
   builder, or one it reads back from a descriptor. *)
CallerWrite ==
  /\ Running
  /\ writes < MaxWrites
  /\ \E addr \in 1..Len(heap), k \in FieldNames :
      \E v \in {ExternalFieldFor(k), InternalFieldFor(k)} :
        /\ writes' = writes + 1
        /\ heap' = [heap EXCEPT ![addr] = Put(@, k, v)]
        /\ last' = [op |-> "write", args |-> [addr |-> addr, key |-> k, value |-> v]]
        /\ UNCHANGED <<descs, types>>

Next ==
  \/ CallScalarType
  \/ CallInterfaceType
  \/ CallObjectType
  \/ CallArrayType
  \/ CallEnumType
  \/ RoundTrip

Spec == Init /\ [][Next]_vars

NextWithCaller == Next \/ CallerWrite

SpecCaller == Init /\ [][NextWithCaller]_vars

(***************************************************************************)
(* Properties.                                                             *)
(***************************************************************************)
Exported == {Int_, Float, String, ID, Boolean}

CalledAndReturned(op) == last.op = op /\ Get(last, "outcome") = "return"

Disjoint(a) == KeySet(a.externalFields) \cap KeySet(a.internalFields) = {}

(* C1: an objectType call whose two field maps share no key returns, and the
   descriptor it returns has type "object", the name and description passed,
   and as externalFields / internalFields maps with exactly the entries
   passed, in the order passed; it has no other property. *)
C1_DisjointMapsRoundTrip ==
  (last.op = "objectType" /\ Disjoint(last.args)) =>
    /\ last.outcome = "return"
    /\ LET d == descs[last.ret]
       IN  /\ DOMAIN d = {"type", "name", "description", "externalFields", "internalFields"}
           /\ d.type = "object"
           /\ d.name = last.args.name
           /\ d.description = last.args.description
           /\ heap[d.externalFields] = last.args.externalFields
           /\ heap[d.internalFields] = last.args.internalFields

(* C1 witness: objectType has returned for two non-empty disjoint maps. *)
C1_Witness ==
  /\ CalledAndReturned("objectType")
  /\ Len(last.args.externalFields) > 0
  /\ Len(last.args.internalFields) > 0
  /\ last.args.name = "X"

(* C2: every step that is an objectType call with a key present in both maps
   ends in the error "Duplicate field names", returns no descriptor and
   leaves the descriptors, their declared types and the maps as they were. *)
C2_OverlapThrows ==
  [][(last'.op = "objectType" /\ ~Disjoint(last'.args)) =>
       /\ last'.outcome = "throw"
       /\ last'.error = "Duplicate field names"
       /\ "ret" \notin DOMAIN last'
       /\ descs' = descs /\ types' = types /\ heap' = heap]_vars

(* C2 witness: objectType has thrown for two maps in which two names collide,
   one of them last in both key sequences. *)
C2_Witness ==
  /\ last.op = "objectType"
  /\ last.outcome = "throw"
  /\ Cardinality(KeySet(last.args.externalFields) \cap KeySet(last.args.internalFields)) = 2
  /\ last.args.externalFields[2].key = last.args.internalFields[2].key

(* C3 as claimed: in every state, whatever the caller has done since with
   the maps it passed, every object descriptor has disjoint externalFields
   and internalFields key sets. *)
C3_ObjectsStayDisjoint ==
  \A i \in 1..Len(descs) :
    descs[i].type = "object" =>
      KeySet(heap[descs[i].externalFields]) \cap KeySet(heap[descs[i].internalFields]) = {}

(* C4 as claimed: arrayType returns a descriptor of type "array" with the
   item type passed and with isOptional false when none was passed, else the
   value passed. *)
C4_IsOptionalDefaultsToFalse ==
  last.op = "arrayType" =>
    /\ last.outcome = "return"
    /\ descs[last.ret].type = "array"
    /\ descs[last.ret].itemType = last.args.itemType
    /\ descs[last.ret].isOptional =
         (IF last.args.isOptional = undefined THEN "false" ELSE last.args.isOptional)

(* C4 amended: arrayType returns a descriptor of type "array" with the item
   type passed and with the isOptional passed: undefined when none was
   passed, never a default. *)
C4_IsOptionalPassedThrough ==
  last.op = "arrayType" =>
    /\ last.outcome = "return"
    /\ descs[last.ret].type = "array"
    /\ descs[last.ret].itemType = last.args.itemType
    /\ descs[last.ret].isOptional = last.args.isOptional

(* C4 witness: arrayType has returned for a call that passed no isOptional. *)
C4_Witness ==
  /\ CalledAndReturned("arrayType")
  /\ last.args.isOptional = undefined
  /\ descs[last.ret].isOptional = undefined

(* C5 as claimed: on each exported scalar parseValue and serialize are
   defined, and serialize(parseValue(v)) returns the wire value v. *)
C5_ExportedScalarsRoundTrip ==
  (last.op = "roundTrip" /\ last.args.scalar \in Exported) =>
    /\ Get(descs[last.args.scalar], "parseValue") # undefined
    /\ Get(descs[last.args.scalar], "serialize") # undefined
    /\ last.outcome = "return"
    /\ last.value = last.args.value

(* C6 as claimed: Infer of a scalar's declared type is its internal
   representation type. *)
C6_InferScalarIsInternal ==
  \A i \in 1..Len(types) :
    types[i].type = "scalar" => Infer(types[i]) = types[i].TInternal

(* The shape the claims call an ordered sequence of items, optional or not. *)
SequenceOf(item, optional) == [kind |-> "sequence", item |-> item, optional |-> optional]

(* C7 as claimed: Infer of an array's declared type is a sequence of the
   projection of its item type, optional exactly when isOptional is true,
   and is not the projection of the item type itself. *)
C7_InferArrayIsSequence ==
  \A i \in 1..Len(descs) :
    descs[i].type = "array" =>
      /\ Infer(types[i]) =
           SequenceOf(Infer(types[descs[i].itemType]), descs[i].isOptional = "true")
      /\ Infer(types[i]) # Infer(types[descs[i].itemType])

(* C8: Infer of an object's declared type is an object shape with one field
   per key of the two maps and no other; an external field is optional
   exactly when its description has isOptional: true, an internal field
   exactly when its binding function declares the flag true; so x requires a
   and c and lets b be absent. *)
C8_InferObject ==
  /\ \A i \in 1..Len(descs) :
       descs[i].type = "object" =>
         LET shape == Infer(types[i])
             ext == heap[descs[i].externalFields]
             int == heap[descs[i].internalFields]
         IN  /\ shape.kind = "object"
             /\ {f.key : f \in shape.fields} = KeySet(ext) \cup KeySet(int)
             /\ Cardinality(shape.fields) = Len(ext) + Len(int)
             /\ \A k \in KeySet(ext) : \E f \in shape.fields :
                  f.key = k /\ f.optional = (Get(Lookup(ext, k), "isOptional") = "true")
             /\ \A k \in KeySet(int) : \E f \in shape.fields :
                  f.key = k /\ f.optional = (Lookup(int, k).IIsOptional = "true")
  /\ Infer(types[x]).fields =
       {[key |-> "a", type |-> Prim("number"), optional |-> FALSE],
        [key |-> "b", type |-> Prim("string"), optional |-> TRUE],
        [key |-> "c", type |-> Prim("boolean"), optional |-> FALSE]}

(* C8 witness: objectType has returned a descriptor with an explicitly
   required external field and an internal field whose flag is true. *)
C8_Witness ==
  /\ CalledAndReturned("objectType")
  /\ \E k \in KeySet(last.args.externalFields) :
       Get(Lookup(last.args.externalFields, k), "isOptional") = "false"
  /\ \E k \in KeySet(last.args.internalFields) :
       Lookup(last.args.internalFields, k).IIsOptional = "true"

(* C9 as claimed: every descriptor, exported or returned by a builder, has a
   non-empty name. *)
C9_NamesNonEmpty ==
  \A i \in 1..Len(descs) : Get(descs[i], "name") \notin {undefined, ""}

(* C10: enumType returns for every items mapping, the empty one included; the
   descriptor has type "enum", its items have exactly the keys passed, and
   Infer of its declared type is the choice among exactly those keys. *)
C10_EnumValueSet ==
  last.op = "enumType" =>
    /\ last.outcome = "return"
    /\ descs[last.ret].type = "enum"
    /\ KeySet(heap[descs[last.ret].items]) = KeySet(last.args.items)
    /\ Infer(types[last.ret]) = Literals(KeySet(last.args.items))

(* C10 witness: enumType has returned for the items {A, B}. *)
C10_Witness ==
  /\ CalledAndReturned("enumType")
  /\ KeySet(last.args.items) = {"A", "B"}

====
